---------------------------- MODULE Spec2Model ----------------------------
(***************************************************************************)
(* Model of src/lib/chunkedCache.ts (lines 1-253): a chunked cache that    *)
(* splits the JSON text of a payload into fixed-size slices, stores every  *)
(* slice and a metadata record through unstable_cache, and reassembles     *)
(* them on retrieval.  Line numbers are those of that file unless another  *)
(* file is named.                                                          *)
(*                                                                         *)
(* Texts are sequences of UTF-16 code units, each written as a string      *)
(* ("a", "[", "U+00E9").  Payloads are JSON values: <<"num", n>>,          *)
(* <<"str", units>>, <<"arr", values>>.                                    *)
(***************************************************************************)
EXTENDS Integers, Sequences, FiniteSets, TLC

\* ------------------------------------------------------------------ bounds
\* Largest maxChunkSizeBytes the splitter is exercised with.
MaxBound == 4
\* Number of get() invocations that may be in progress at the same time.
NumSlots == 2
\* Total number of get() invocations in one behaviour.
MaxGets == 3
\* Total number of evictions and store errors in one behaviour.
MaxFaults == 2

\* src/lib/chunkedCache.ts:3  SAFE_CHUNK_SIZE_BYTES = 1_500_000, scaled down
\* to 3 so that the payloads of the model span one to three chunks.
SAFE_CHUNK_SIZE_BYTES == 3

\* ------------------------------------------------------------ JSON values
Num(n) == <<"num", n>>
Str(s) == <<"str", s>>
Arr(a) == <<"arr", a>>

Quote == "\""
Digits == <<"0", "1", "2", "3", "4", "5", "6", "7", "8", "9">>
DigitChar(d) == Digits[d + 1]
IsDigit(c) == \E d \in 0..9 : Digits[d + 1] = c
DigitVal(c) == CHOOSE d \in 0..9 : Digits[d + 1] = c

\* Number of bytes of one UTF-16 code unit once encoded as UTF-8
\* (new TextEncoder().encode): the unit U+00E9 takes two bytes, U+20AC three,
\* an ASCII unit one.
UnitBytes(c) == IF c = "U+00E9" THEN 2 ELSE IF c = "U+20AC" THEN 3 ELSE 1

RECURSIVE ByteLength(_)
ByteLength(text) ==
    IF text = <<>> THEN 0 ELSE UnitBytes(Head(text)) + ByteLength(Tail(text))

RECURSIVE NumberToString(_)
NumberToString(n) ==
    IF n < 10 THEN <<DigitChar(n)>>
    ELSE NumberToString(n \div 10) \o <<DigitChar(n % 10)>>

\* JSON.stringify on the values of the model (no character needs an escape).
RECURSIVE JSONStringify(_), StringifyElements(_)
JSONStringify(v) ==
    CASE v[1] = "num" -> NumberToString(v[2])
      [] v[1] = "str" -> <<Quote>> \o v[2] \o <<Quote>>
      [] v[1] = "arr" -> <<"[">> \o StringifyElements(v[2]) \o <<"]">>

StringifyElements(a) ==
    IF a = <<>> THEN <<>>
    ELSE IF Len(a) = 1 THEN JSONStringify(a[1])
    ELSE JSONStringify(a[1]) \o <<",">> \o StringifyElements(Tail(a))

\* JSON.parse: a recursive-descent parser of numbers, strings and arrays.
\* A parse step yields [ok, val, next]: next is the index after the value.
ParseFail == [ok |-> FALSE, val |-> <<"SyntaxError">>, next |-> 0]

RECURSIVE DigitsEnd(_, _)
DigitsEnd(t, i) ==
    IF i <= Len(t) /\ IsDigit(t[i]) THEN DigitsEnd(t, i + 1) ELSE i

RECURSIVE DigitsValue(_, _, _, _)
DigitsValue(t, i, j, acc) ==
    IF i >= j THEN acc ELSE DigitsValue(t, i + 1, j, acc * 10 + DigitVal(t[i]))

RECURSIVE QuoteAt(_, _)
QuoteAt(t, i) ==
    IF i > Len(t) THEN 0 ELSE IF t[i] = Quote THEN i ELSE QuoteAt(t, i + 1)

RECURSIVE ParseValue(_, _), ParseElements(_, _, _)
ParseValue(t, i) ==
    IF i > Len(t) THEN ParseFail
    ELSE IF t[i] = "0" THEN [ok |-> TRUE, val |-> Num(0), next |-> i + 1]
    ELSE IF IsDigit(t[i]) THEN
        LET j == DigitsEnd(t, i)
        IN  [ok |-> TRUE, val |-> Num(DigitsValue(t, i, j, 0)), next |-> j]
    ELSE IF t[i] = Quote THEN
        LET j == QuoteAt(t, i + 1)
        IN  IF j = 0 THEN ParseFail
            ELSE [ok |-> TRUE, val |-> Str(SubSeq(t, i + 1, j - 1)), next |-> j + 1]
    ELSE IF t[i] = "[" THEN
        IF i + 1 <= Len(t) /\ t[i + 1] = "]"
        THEN [ok |-> TRUE, val |-> Arr(<<>>), next |-> i + 2]
        ELSE ParseElements(t, i + 1, <<>>)
    ELSE ParseFail

ParseElements(t, i, acc) ==
    LET r == ParseValue(t, i)
    IN  IF ~r.ok \/ r.next > Len(t) THEN ParseFail
        ELSE IF t[r.next] = "," THEN ParseElements(t, r.next + 1, Append(acc, r.val))
        ELSE IF t[r.next] = "]"
             THEN [ok |-> TRUE, val |-> Arr(Append(acc, r.val)), next |-> r.next + 1]
        ELSE ParseFail

\* JSON.parse(text): the value, or a SyntaxError when text is no JSON text.
JSONParse(t) ==
    LET r == ParseValue(t, 1)
    IN  IF r.ok /\ r.next = Len(t) + 1 THEN [ok |-> TRUE, val |-> r.val]
        ELSE [ok |-> FALSE, val |-> <<"SyntaxError">>]

\* String.prototype.slice(start, end) for 0 <= start <= end (0-based, end
\* exclusive and clamped to the length), on 1-based sequences.
Min(a, b) == IF a < b THEN a ELSE b
\* A slice that takes the unit at index end as well.
SliceThroughEnd(text, start, end) == SubSeq(text, start + 1, Min(end + 1, Len(text)))
Slice(text, start, end) == SubSeq(text, start + 1, Min(end, Len(text)))

\* Array.prototype.join("") on an array of texts.
RECURSIVE Join(_)
Join(chunkList) ==
    IF chunkList = <<>> THEN <<>> ELSE Head(chunkList) \o Join(Tail(chunkList))

\* The for loop of splitIntoChunks (lines 12-19), from startIndex on.
RECURSIVE SplitLoop(_, _, _, _)
SplitLoop(text, maxChunkSizeBytes, start, acc) ==
    IF start < Len(text)
    THEN SplitLoop(text, maxChunkSizeBytes, start + maxChunkSizeBytes,
                   Append(acc, Slice(text, start, start + maxChunkSizeBytes)))
    ELSE acc

\* splitIntoChunks(data, maxChunkSizeBytes).chunks
splitIntoChunks(data, maxChunkSizeBytes) ==
    SplitLoop(JSONStringify(data), maxChunkSizeBytes, 0, <<>>)

\* Array.prototype.join() with its default separator, a comma.
RECURSIVE JoinWithComma(_)
JoinWithComma(chunkList) ==
    IF chunkList = <<>> THEN <<>>
    ELSE IF Len(chunkList) = 1 THEN Head(chunkList)
    ELSE Head(chunkList) \o <<",">> \o JoinWithComma(Tail(chunkList))
reassembleChunksCommaJoin(chunkList) == JSONParse(JoinWithComma(chunkList))

\* reassembleChunks(chunks): JSON.parse(chunks.join(""))
reassembleChunks(chunkList) == JSONParse(Join(chunkList))


\* ------------------------------------------------------------------- keys
\* Keys are texts, written as sequences of tokens.
\* createChunkedCache(cacheKeyPrefix, fetchData, revalidateSeconds), as the
\* application calls it (src/app/page.tsx:7-11).
cacheKeyPrefix == <<"rest-countries-all">>
revalidateSeconds == 3600

\* `metadata::${cacheKeyPrefix}` (line 175)
metadataKey(prefix) == <<"metadata::">> \o prefix

\* A chunk key that leaves the index out.
createChunkKeyNoIndex(prefix, chunkIndex) == prefix \o <<"::chunk">>

\* `${prefix}::chunk${chunkIndex}` (lines 29-31)
createChunkKey(prefix, chunkIndex) ==
    prefix \o <<"::chunk">> \o NumberToString(chunkIndex)

\* `${key}:${revalidateSeconds}` (lines 50 and 85)
cacheKey(key, revalidate) == key \o <<":">> \o NumberToString(revalidate)

MetaCacheKey == cacheKey(metadataKey(cacheKeyPrefix), revalidateSeconds)
ChunkCacheKey(i) == cacheKey(createChunkKey(cacheKeyPrefix, i), revalidateSeconds)

\* --------------------------------------------------------------- payloads
\* What the producer (fetchData) may return.
Payloads ==
    { Num(1234), Num(7), Str(<<"a", "U+00E9">>) }

\* What the splitter is exercised with, one bound at a time.
SplitPayloads ==
    Payloads \cup
    { Arr(<<Num(1), Num(2)>>), Num(0), Num(120), Str(<<>>), Str(<<"U+20AC", "a", "a">>), Arr(<<>>),
      Arr(<<Str(<<"a">>), Num(10)>>), Arr(<<Arr(<<Num(5)>>), Num(6)>>) }


\* ------------------------------------------------------------------ state
VARIABLES
    cache,          \* the data cache behind unstable_cache: cacheKey -> value
    requestStore,   \* the module-level Map of line 38: cacheKey -> value
    pc,             \* where each get() invocation stands
    metadata,       \* retrieveFromCache: the metadata it read
    chunks,         \* retrieveFromCache: the chunk reads and their results
    freshData,      \* get: what fetchData returned
    pendingWrites,  \* storeInCache: the cachedFn() calls still in flight
    result,         \* what get() returned or threw
    readError,      \* history: a store read of this get() errored
    fetchCalls,     \* history: calls of fetchData made by this get()
    fetchFailed,    \* history: fetchData of this get() rejected
    keysUsed,       \* the store keys that the caches created so far use, each
                    \*   with the prefix, role and chunk index it was built for
    lookupWrote,   \* history: a read of the lookup of this get() has put an
                    \*   entry into the data cache
    arrival,        \* history: the chunk indexes of this get(), in the order
                    \*   their reads completed
    produced,       \* history: the payloads fetchData has returned
    getCount,       \* history: get() invocations started
    faults,         \* history: evictions and store errors so far
    spPc,           \* splitIntoChunks / reassembleChunks run on their own
    spData,         \*   data
    spMax,          \*   maxChunkSizeBytes
    jsonString,     \*   jsonString
    startIndex,     \*   startIndex
    spChunks,       \*   chunks
    spParsed        \*   what reassembleChunks returned

getVars == <<pc, metadata, chunks, freshData, pendingWrites, result,
             readError, fetchCalls, fetchFailed, arrival, lookupWrote>>
histVars == <<produced, getCount, faults>>
splitVars == <<spPc, spData, spMax, jsonString, startIndex, spChunks, spParsed>>
vars == <<cache, requestStore, getVars, histVars, splitVars, keysUsed>>

Slots == 1..NumSlots

\* A Map as a function on the keys it holds.
EmptyMap == <<>>
MapSet(m, k, v) == [x \in DOMAIN m \cup {k} |-> IF x = k THEN v ELSE m[x]]
MapDelete(m, k) == [x \in DOMAIN m \ {k} |-> m[x]]

NoMetadata == [present |-> FALSE, chunkCount |-> 0]
Metadata(n) == [present |-> TRUE, chunkCount |-> n]
PendingChunk == [state |-> "pending", text |-> <<>>]
NullChunk == [state |-> "null", text |-> <<>>]
ValueChunk(t) == [state |-> "value", text |-> t]

NoData == <<"none">>
NoResult == [kind |-> "none", data |-> NoData]
ProducerError == <<"error", "fetchData">>
StoreError == <<"error", "unstable_cache">>

\* ------------------------------------------- splitIntoChunks, step by step
SplitIdle ==
    /\ spPc = "off" /\ spData = NoData /\ spMax = 0 /\ jsonString = <<>>
    /\ startIndex = 0 /\ spChunks = <<>> /\ spParsed = NoResult

\* line 9-13: const jsonString = JSON.stringify(data); chunks = []; startIndex = 0
SplitCall ==
    /\ spPc = "call"
    /\ jsonString' = JSONStringify(spData)
    /\ spChunks' = <<>>
    /\ startIndex' = 0
    /\ spPc' = "loop"
    /\ UNCHANGED <<spData, spMax, spParsed>>
    /\ UNCHANGED <<cache, requestStore, getVars, histVars, keysUsed>>

\* lines 14-18: one iteration of the for loop
SplitIterate ==
    /\ spPc = "loop"
    /\ startIndex < Len(jsonString)
    /\ spChunks' = Append(spChunks, Slice(jsonString, startIndex, startIndex + spMax))
    /\ startIndex' = startIndex + spMax
    /\ UNCHANGED <<spPc, spData, spMax, jsonString, spParsed>>
    /\ UNCHANGED <<cache, requestStore, getVars, histVars, keysUsed>>

\* lines 14 and 21: the loop condition fails, return
SplitReturn ==
    /\ spPc = "loop"
    /\ ~(startIndex < Len(jsonString))
    /\ spPc' = "split"
    /\ UNCHANGED <<spData, spMax, jsonString, startIndex, spChunks, spParsed>>
    /\ UNCHANGED <<cache, requestStore, getVars, histVars, keysUsed>>

\* lines 24-27: reassembleChunks(chunks)
Reassemble ==
    /\ spPc = "split"
    /\ spParsed' = LET r == reassembleChunks(spChunks)
                   IN  IF r.ok THEN [kind |-> "parsed", data |-> r.val]
                       ELSE [kind |-> "error", data |-> r.val]
    /\ spPc' = "joined"
    /\ UNCHANGED <<spData, spMax, jsonString, startIndex, spChunks>>
    /\ UNCHANGED <<cache, requestStore, getVars, histVars, keysUsed>>

\* lines 191-199: the chunk with index i - 1 is missing from the store, its
\* read yields null and the filter drops it; the chunks that remain keep their
\* index order.
LoseChunk(i) ==
    /\ spPc \in {"split", "lost"}
    /\ i \in DOMAIN spChunks
    /\ spChunks' = [j \in 1..(Len(spChunks) - 1) |->
                       IF j < i THEN spChunks[j] ELSE spChunks[j + 1]]
    /\ spPc' = "lost"
    /\ UNCHANGED <<spData, spMax, jsonString, startIndex, spParsed>>
    /\ UNCHANGED <<cache, requestStore, getVars, histVars, keysUsed>>

\* lines 201-212: reassembleChunks on the chunks that remain
ReassembleRemaining ==
    /\ spPc = "lost"
    /\ spParsed' = LET r == reassembleChunks(spChunks)
                   IN  IF r.ok THEN [kind |-> "parsed", data |-> r.val]
                       ELSE [kind |-> "error", data |-> r.val]
    /\ spPc' = "joinedRemaining"
    /\ UNCHANGED <<spData, spMax, jsonString, startIndex, spChunks>>
    /\ UNCHANGED <<cache, requestStore, getVars, histVars, keysUsed>>

\* ---------------------------------------------------------- unstable_cache
\* cachedFn() of lines 56-72 and 91-106, as the comments of lines 89-90 state
\* it: an entry that exists is returned without running the callback;
\* otherwise the callback runs, reads requestStore (lines 58 and 93), throws
\* when requestStore holds nothing for the key (lines 59-61 and 94-96), and
\* its value is cached and returned.
CachedFnThrows(c, rs, k) == k \notin DOMAIN c /\ k \notin DOMAIN rs
CachedFnValue(c, rs, k) == IF k \in DOMAIN c THEN c[k] ELSE rs[k]
CachedFnCache(c, rs, k) ==
    IF k \in DOMAIN c \/ k \notin DOMAIN rs THEN c ELSE MapSet(c, k, rs[k])

\* ------------------------------------------------------------------ get()
InProgress(g) ==
    pc[g] \notin {"idle", "returned", "threw"} \/ pendingWrites[g] # {}

\* line 237: get() is called and calls retrieveFromCache, which starts the
\* metadata read (line 181).  The lowest free slot takes the invocation.
GetStart(g) ==
    /\ spPc = "off"
    /\ ~InProgress(g)
    /\ \A h \in Slots : h < g => InProgress(h)
    /\ getCount < MaxGets
    /\ getCount' = getCount + 1
    /\ pc' = [pc EXCEPT ![g] = "retrieveMetadata"]
    /\ metadata' = [metadata EXCEPT ![g] = NoMetadata]
    /\ chunks' = [chunks EXCEPT ![g] = <<>>]
    /\ freshData' = [freshData EXCEPT ![g] = NoData]
    /\ result' = [result EXCEPT ![g] = NoResult]
    /\ readError' = [readError EXCEPT ![g] = FALSE]
    /\ fetchCalls' = [fetchCalls EXCEPT ![g] = 0]
    /\ fetchFailed' = [fetchFailed EXCEPT ![g] = FALSE]
    /\ arrival' = [arrival EXCEPT ![g] = <<>>]
    /\ lookupWrote' = [lookupWrote EXCEPT ![g] = FALSE]
    /\ UNCHANGED <<cache, requestStore, pendingWrites, produced, faults, splitVars, keysUsed>>

\* The chunks that are not null, last index first.
ValidChunksReversed(cs) ==
    LET kept == SelectSeq(cs, LAMBDA c : c.state # "null")
    IN  [i \in 1..Len(kept) |-> kept[Len(kept) + 1 - i].text]

\* lines 196-199: chunks.filter(chunk => chunk !== null)
ValidChunks(cs) ==
    LET kept == SelectSeq(cs, LAMBDA c : c.state # "null")
    IN  [i \in 1..Len(kept) |-> kept[i].text]

\* A get() that starts its lookup again when the chunks read do not decode.
RetrieveOutcomeRetry(cs) ==
    LET r == reassembleChunks(ValidChunks(cs))
    IN  IF r.ok THEN [pc |-> "returned", result |-> [kind |-> "hit", data |-> r.val]]
        ELSE [pc |-> "retrieveMetadata", result |-> NoResult]

\* A get() that goes on to fetchData whatever the reads brought.
RetrieveOutcomeAlwaysFetch(cs) == [pc |-> "fetchData", result |-> NoResult]

\* lines 201-212 and 239-246: the reads are in; reassemble.  A parsed value
\* is a hit and get() returns it; a SyntaxError makes retrieveFromCache return
\* null and get() goes on to fetchData.
RetrieveOutcome(cs) ==
    LET r == reassembleChunks(ValidChunks(cs))
    IN  IF r.ok THEN [pc |-> "returned", result |-> [kind |-> "hit", data |-> r.val]]
        ELSE [pc |-> "fetchData", result |-> NoResult]

\* A chunk key array one longer than the metadata counts.
PendingChunksOneMore(n) == [i \in 1..(n + 1) |-> PendingChunk]

\* lines 187-194: Array.from({ length: metadata.chunkCount }, ...), one read
\* started for each of the keys.
PendingChunks(n) == [i \in 1..n |-> PendingChunk]

\* lines 181-194 with 80-111 and 126-141: the metadata read completes.  An
\* erroring read (fail) and a throwing callback both end in the catch of
\* line 107, which returns null.
RetrieveMetadata(g, fail) ==
    /\ pc[g] = "retrieveMetadata"
    /\ fail => faults < MaxFaults
    /\ faults' = IF fail THEN faults + 1 ELSE faults
    /\ IF fail \/ CachedFnThrows(cache, requestStore, MetaCacheKey)
       THEN /\ pc' = [pc EXCEPT ![g] = "fetchData"]
            /\ readError' = [readError EXCEPT ![g] = fail]
            /\ UNCHANGED <<cache, metadata, chunks, result, lookupWrote>>
       ELSE LET md == CachedFnValue(cache, requestStore, MetaCacheKey)
                cs == PendingChunks(md.chunkCount)
            IN  /\ cache' = CachedFnCache(cache, requestStore, MetaCacheKey)
                /\ lookupWrote' = [lookupWrote EXCEPT ![g] =
                                        @ \/ MetaCacheKey \notin DOMAIN cache]
                /\ metadata' = [metadata EXCEPT ![g] = Metadata(md.chunkCount)]
                /\ chunks' = [chunks EXCEPT ![g] = cs]
                /\ IF md.chunkCount = 0
                   THEN /\ pc' = [pc EXCEPT ![g] = RetrieveOutcome(cs).pc]
                        /\ result' = [result EXCEPT ![g] = RetrieveOutcome(cs).result]
                   ELSE /\ pc' = [pc EXCEPT ![g] = "retrieveChunks"]
                        /\ UNCHANGED result
                /\ UNCHANGED readError
    /\ UNCHANGED <<requestStore, freshData, pendingWrites, fetchCalls, fetchFailed,
                   arrival, produced, getCount, splitVars, keysUsed>>

\* lines 191-212 with 80-111 and 151-168: the read of chunk i (0-based)
\* completes; the last read to complete resolves Promise.all.
RetrieveChunk(g, i, fail) ==
    /\ pc[g] = "retrieveChunks"
    /\ i + 1 \in DOMAIN chunks[g]
    /\ chunks[g][i + 1].state = "pending"
    /\ fail => faults < MaxFaults
    /\ faults' = IF fail THEN faults + 1 ELSE faults
    /\ LET k == ChunkCacheKey(i)
           null == fail \/ CachedFnThrows(cache, requestStore, k)
           got == IF null THEN NullChunk
                  ELSE ValueChunk(CachedFnValue(cache, requestStore, k))
           cs == [chunks[g] EXCEPT ![i + 1] = got]
           all == \A j \in DOMAIN cs : cs[j].state # "pending"
       IN  /\ cache' = IF null THEN cache ELSE CachedFnCache(cache, requestStore, k)
           /\ lookupWrote' = [lookupWrote EXCEPT ![g] =
                                   @ \/ (~null /\ k \notin DOMAIN cache)]
           /\ chunks' = [chunks EXCEPT ![g] = cs]
           /\ readError' = [readError EXCEPT ![g] = @ \/ fail]
           /\ arrival' = [arrival EXCEPT ![g] = Append(@, i)]
           /\ IF all
              THEN /\ pc' = [pc EXCEPT ![g] = RetrieveOutcome(cs).pc]
                   /\ result' = [result EXCEPT ![g] = RetrieveOutcome(cs).result]
              ELSE UNCHANGED <<pc, result>>
    /\ UNCHANGED <<requestStore, metadata, freshData, pendingWrites, fetchCalls,
                   fetchFailed, produced, getCount, splitVars, keysUsed>>

\* lines 224-233: the keys storeInCache writes for these chunks.
StoreKeys(chunkList) ==
    {MetaCacheKey} \cup {ChunkCacheKey(i - 1) : i \in DOMAIN chunkList}

\* A metadata record that counts one chunk too few.
MetadataRecordOneLess(chunkList) == [chunkCount |-> Len(chunkList) - 1]

\* lines 118-123 and 225: storeMetadata(metadataKey, chunks.length, ...) stores
\* { chunkCount }.
MetadataRecord(chunkList) == [chunkCount |-> Len(chunkList)]

\* lines 53, 118-123, 148: what the storeCachedValue calls of storeInCache
\* put in requestStore, all before the first of them is awaited.
StoreInRequestStore(rs, chunkList) ==
    [k \in DOMAIN rs \cup StoreKeys(chunkList) |->
        IF k = MetaCacheKey THEN MetadataRecord(chunkList)
        ELSE IF \E i \in DOMAIN chunkList : k = ChunkCacheKey(i - 1)
             THEN chunkList[CHOOSE i \in DOMAIN chunkList : k = ChunkCacheKey(i - 1)]
             ELSE rs[k]]

\* A get() that, when another get() is in its store-back, takes the payload
\* of that get() and neither calls the producer nor writes.
FetchDataSingleFlight(g, p) ==
    /\ pc[g] = "fetchData"
    /\ IF \E h \in Slots : h # g /\ pc[h] = "storeInCache"
       THEN /\ freshData' = [freshData EXCEPT ![g] =
                    freshData[CHOOSE h \in Slots : h # g /\ pc[h] = "storeInCache"]]
            /\ UNCHANGED <<requestStore, pendingWrites, fetchCalls, produced>>
       ELSE /\ freshData' = [freshData EXCEPT ![g] = p]
            /\ LET chunkList == splitIntoChunks(p, SAFE_CHUNK_SIZE_BYTES)
               IN  /\ requestStore' = StoreInRequestStore(requestStore, chunkList)
                   /\ pendingWrites' = [pendingWrites EXCEPT ![g] = StoreKeys(chunkList)]
            /\ fetchCalls' = [fetchCalls EXCEPT ![g] = @ + 1]
            /\ produced' = produced \cup {p}
    /\ pc' = [pc EXCEPT ![g] = "storeInCache"]
    /\ UNCHANGED <<cache, metadata, chunks, result, readError, fetchFailed,
                   arrival, lookupWrote, getCount, faults, splitVars, keysUsed>>

\* lines 247-248 and 215-233: fetchData resolves with payload p; storeInCache
\* splits it, sets requestStore and starts every cachedFn() call.
FetchData(g, p) ==
    /\ pc[g] = "fetchData"
    /\ LET chunkList == splitIntoChunks(p, SAFE_CHUNK_SIZE_BYTES)
       IN  /\ requestStore' = StoreInRequestStore(requestStore, chunkList)
           /\ pendingWrites' = [pendingWrites EXCEPT ![g] = StoreKeys(chunkList)]
    /\ freshData' = [freshData EXCEPT ![g] = p]
    /\ fetchCalls' = [fetchCalls EXCEPT ![g] = @ + 1]
    /\ produced' = produced \cup {p}
    /\ pc' = [pc EXCEPT ![g] = "storeInCache"]
    /\ UNCHANGED <<cache, metadata, chunks, result, readError, fetchFailed,
                   arrival, lookupWrote, getCount, faults, splitVars, keysUsed>>

\* A get() that catches the rejection of fetchData and returns undefined.
FetchRejectedSwallowed ==
    [pc |-> "returned", result |-> [kind |-> "miss", data |-> <<"undefined">>]]

\* line 247: fetchData rejects; nothing catches it, get() rejects with it.
FetchRejected == [pc |-> "threw", result |-> [kind |-> "error", data |-> ProducerError]]

FetchDataFails(g) ==
    /\ pc[g] = "fetchData"
    /\ fetchCalls' = [fetchCalls EXCEPT ![g] = @ + 1]
    /\ fetchFailed' = [fetchFailed EXCEPT ![g] = TRUE]
    /\ pc' = [pc EXCEPT ![g] = FetchRejected.pc]
    /\ result' = [result EXCEPT ![g] = FetchRejected.result]
    /\ UNCHANGED <<cache, requestStore, metadata, chunks, freshData, pendingWrites,
                   readError, arrival, lookupWrote, histVars, splitVars, keysUsed>>

\* lines 72 and 224-233, 248-249: one cachedFn() call of the store-back
\* completes.  When it is the last one Promise.all resolves and get() returns
\* freshData.  The calls of a get() that has already thrown still complete.
StoreWrite(g, k) ==
    /\ k \in pendingWrites[g]
    /\ cache' = CachedFnCache(cache, requestStore, k)
    /\ pendingWrites' = [pendingWrites EXCEPT ![g] = @ \ {k}]
    /\ IF pc[g] = "storeInCache" /\ pendingWrites[g] = {k}
       THEN /\ pc' = [pc EXCEPT ![g] = "returned"]
            /\ result' = [result EXCEPT ![g] = [kind |-> "miss", data |-> freshData[g]]]
       ELSE UNCHANGED <<pc, result>>
    /\ UNCHANGED <<requestStore, metadata, chunks, freshData, readError, fetchCalls,
                   fetchFailed, arrival, lookupWrote, histVars, splitVars, keysUsed>>

\* lines 72 and 224-233, 248: one cachedFn() call of the store-back rejects
\* (the store errors).  storeCachedValue has no catch: Promise.all rejects at
\* once and get() rejects, while the other calls are still in flight.
StoreWriteFails(g, k) ==
    /\ k \in pendingWrites[g]
    /\ faults < MaxFaults
    /\ faults' = faults + 1
    /\ pendingWrites' = [pendingWrites EXCEPT ![g] = @ \ {k}]
    /\ IF pc[g] = "storeInCache"
       THEN /\ pc' = [pc EXCEPT ![g] = "threw"]
            /\ result' = [result EXCEPT ![g] = [kind |-> "error", data |-> StoreError]]
       ELSE UNCHANGED <<pc, result>>
    /\ UNCHANGED <<cache, requestStore, metadata, chunks, freshData, readError,
                   fetchCalls, fetchFailed, arrival, lookupWrote, produced, getCount,
                   splitVars, keysUsed>>

\* ------------------------------------------------------------ environment
\* The data cache drops one entry (expiry or eviction), whichever it is.
Evict(k) ==
    /\ spPc = "off"
    /\ k \in DOMAIN cache
    /\ faults < MaxFaults
    /\ faults' = faults + 1
    /\ cache' = MapDelete(cache, k)
    /\ UNCHANGED <<requestStore, getVars, produced, getCount, splitVars, keysUsed>>

\* A new server process: the module is evaluated again and line 38 builds an
\* empty requestStore.  The data cache persists.
ColdStart ==
    /\ spPc = "off"
    /\ \A g \in Slots : ~InProgress(g)
    /\ DOMAIN requestStore # {}
    /\ requestStore' = EmptyMap
    /\ pc' = [g \in Slots |-> "idle"]
    /\ metadata' = [g \in Slots |-> NoMetadata]
    /\ chunks' = [g \in Slots |-> <<>>]
    /\ freshData' = [g \in Slots |-> NoData]
    /\ result' = [g \in Slots |-> NoResult]
    /\ readError' = [g \in Slots |-> FALSE]
    /\ fetchCalls' = [g \in Slots |-> 0]
    /\ fetchFailed' = [g \in Slots |-> FALSE]
    /\ arrival' = [g \in Slots |-> <<>>]
    /\ lookupWrote' = [g \in Slots |-> FALSE]
    /\ UNCHANGED <<cache, pendingWrites, histVars, splitVars, keysUsed>>

\* --------------------------------------------------------- specifications
GetInit ==
    /\ pc = [g \in Slots |-> "idle"]
    /\ metadata = [g \in Slots |-> NoMetadata]
    /\ chunks = [g \in Slots |-> <<>>]
    /\ freshData = [g \in Slots |-> NoData]
    /\ pendingWrites = [g \in Slots |-> {}]
    /\ result = [g \in Slots |-> NoResult]
    /\ readError = [g \in Slots |-> FALSE]
    /\ fetchCalls = [g \in Slots |-> 0]
    /\ fetchFailed = [g \in Slots |-> FALSE]
    /\ arrival = [g \in Slots |-> <<>>]
    /\ lookupWrote = [g \in Slots |-> FALSE]
    /\ produced = {}
    /\ getCount = 0
    /\ faults = 0

\* An empty data cache and a fresh process.
Init ==
    /\ cache = EmptyMap
    /\ requestStore = EmptyMap
    /\ GetInit
    /\ keysUsed = {}
    /\ SplitIdle

\* The chunk indexes and the keys the payloads of the model can occupy.
ChunkIndexes ==
    {i - 1 : i \in UNION {DOMAIN splitIntoChunks(p, SAFE_CHUNK_SIZE_BYTES) : p \in Payloads}}
AllCacheKeys == {MetaCacheKey} \cup {ChunkCacheKey(i) : i \in ChunkIndexes}

Next ==
    \/ \E g \in Slots : GetStart(g)
    \/ \E g \in Slots, fail \in BOOLEAN : RetrieveMetadata(g, fail)
    \/ \E g \in Slots, i \in ChunkIndexes, fail \in BOOLEAN : RetrieveChunk(g, i, fail)
    \/ \E g \in Slots, p \in Payloads : FetchData(g, p)
    \/ \E g \in Slots : FetchDataFails(g)
    \/ \E g \in Slots, k \in AllCacheKeys : StoreWrite(g, k)
    \/ \E g \in Slots, k \in AllCacheKeys : StoreWriteFails(g, k)
    \/ \E k \in AllCacheKeys : Evict(k)
    \/ ColdStart

Spec == Init /\ [][Next]_vars

\* get() called one invocation at a time: the next call starts after the
\* previous one has ended.  The store and the producer behave as in Spec.
NextSequential ==
    \/ GetStart(1)
    \/ \E fail \in BOOLEAN : RetrieveMetadata(1, fail)
    \/ \E i \in ChunkIndexes, fail \in BOOLEAN : RetrieveChunk(1, i, fail)
    \/ \E p \in Payloads : FetchData(1, p)
    \/ FetchDataFails(1)
    \/ \E k \in AllCacheKeys : StoreWrite(1, k)
    \/ \E k \in AllCacheKeys : StoreWriteFails(1, k)
    \/ \E k \in AllCacheKeys : Evict(k)
    \/ ColdStart

SpecSequential == Init /\ [][NextSequential]_vars

\* get() invocations running concurrently in one process, against a store
\* that starts empty, loses nothing and answers every read and write.
NextConcurrent ==
    \/ \E g \in Slots : GetStart(g)
    \/ \E g \in Slots : RetrieveMetadata(g, FALSE)
    \/ \E g \in Slots, i \in ChunkIndexes : RetrieveChunk(g, i, FALSE)
    \/ \E g \in Slots, p \in Payloads : FetchData(g, p)
    \/ \E g \in Slots, k \in AllCacheKeys : StoreWrite(g, k)

SpecConcurrent == Init /\ [][NextConcurrent]_vars

\* splitIntoChunks and reassembleChunks on every payload and bound.
InitSplit ==
    /\ cache = EmptyMap
    /\ requestStore = EmptyMap
    /\ GetInit
    /\ keysUsed = {}
    /\ spPc = "call"
    /\ spData \in SplitPayloads
    /\ spMax \in 1..MaxBound
    /\ jsonString = <<>>
    /\ startIndex = 0
    /\ spChunks = <<>>
    /\ spParsed = NoResult

NextSplit == SplitCall \/ SplitIterate \/ SplitReturn \/ Reassemble

SpecSplit == InitSplit /\ [][NextSplit]_vars /\ WF_vars(NextSplit)

\* One external call of get() g completes: a store read, the producer call or
\* a store write, with success or with an error.
GetStep(g) ==
    \/ \E fail \in BOOLEAN : RetrieveMetadata(g, fail)
    \/ \E i \in ChunkIndexes, fail \in BOOLEAN : RetrieveChunk(g, i, fail)
    \/ \E p \in Payloads : FetchData(g, p)
    \/ FetchDataFails(g)
    \/ \E k \in AllCacheKeys : StoreWrite(g, k)
    \/ \E k \in AllCacheKeys : StoreWriteFails(g, k)

\* get() called one invocation at a time, on a store and a producer that may
\* fail, with every external call that get() has issued completing eventually.
NextFair ==
    \/ GetStart(1)
    \/ \E fail \in BOOLEAN : RetrieveMetadata(1, fail)
    \/ \E i \in ChunkIndexes, fail \in BOOLEAN : RetrieveChunk(1, i, fail)
    \/ \E p \in Payloads : FetchData(1, p)
    \/ FetchDataFails(1)
    \/ \E k \in AllCacheKeys : StoreWrite(1, k)
    \/ \E k \in AllCacheKeys : StoreWriteFails(1, k)

SpecFair == Init /\ [][NextFair]_vars /\ WF_vars(GetStep(1))

\* ------------------------------------------------------------- store keys
\* The chunk indexes for which keys are built.
MaxKeyIndex == 1

\* Prefixes that createChunkedCache may be called with: any string.
KeyPrefixes ==
    {cacheKeyPrefix, <<"x">>, <<"metadata::", "x">>, <<"x", "::chunk", "0">>}

\* lines 175, 29-31 and 50: the store key of the entry of this role and index
\* of the cache created with this prefix.
KeyRecord(prefix, role, index) ==
    [prefix |-> prefix, role |-> role, index |-> index,
     key |-> cacheKey(IF role = "metadata" THEN metadataKey(prefix)
                      ELSE createChunkKey(prefix, index), revalidateSeconds)]

\* lines 170-175: createChunkedCache(cacheKeyPrefix, ...) builds metadataKey.
createChunkedCache(prefix) ==
    /\ \A r \in keysUsed : r.prefix # prefix
    /\ keysUsed' = keysUsed \cup {KeyRecord(prefix, "metadata", 0)}
    /\ UNCHANGED <<cache, requestStore, getVars, histVars, splitVars>>

\* lines 187-189 and 228-231: the cache created with this prefix builds the
\* key of its chunk i, to read it or to write it.
UseChunkKey(prefix, i) ==
    /\ \E r \in keysUsed : r.prefix = prefix
    /\ KeyRecord(prefix, "chunk", i) \notin keysUsed
    /\ keysUsed' = keysUsed \cup {KeyRecord(prefix, "chunk", i)}
    /\ UNCHANGED <<cache, requestStore, getVars, histVars, splitVars>>

NextKeys ==
    \/ \E prefix \in KeyPrefixes : createChunkedCache(prefix)
    \/ \E prefix \in KeyPrefixes, i \in 0..MaxKeyIndex : UseChunkKey(prefix, i)

\* Caches created with different prefixes, and the keys they use.
SpecKeys == Init /\ [][NextKeys]_vars

\* The positions a chunk can have in the chunk array of a payload.
ChunkPositions == UNION {DOMAIN splitIntoChunks(p, 1) : p \in SplitPayloads}

\* splitIntoChunks on every payload and bound, then reassembleChunks on what
\* remains of the chunks when one or more of them are missing.
NextRemaining ==
    \/ SplitCall
    \/ SplitIterate
    \/ SplitReturn
    \/ \E i \in ChunkPositions : LoseChunk(i)
    \/ ReassembleRemaining

SpecRemaining == InitSplit /\ [][NextRemaining]_vars

\* ----------------------------------------------------------------- claims
Returned(g) == pc[g] = "returned"
IsHit(g) == Returned(g) /\ result[g].kind = "hit"
IsMiss(g) == Returned(g) /\ result[g].kind = "miss"

\* C1: a get() that found at least one of the chunkCount chunk entries absent
\* (no read of it errored) does not return a value decoded from the chunks
\* that remain: every such get() that ends as a hit has read all the chunks
\* its metadata counts.
C1_PartialLossRefetches ==
    \A g \in Slots :
        (IsHit(g) /\ ~readError[g]) =>
            \A i \in DOMAIN chunks[g] : chunks[g][i].state = "value"

\* C2: with get() called one at a time and no eviction and no store error so
\* far, the producer is reached only while nothing has been produced yet, a
\* get() on the miss path calls the producer once and returns its payload, a
\* get() that ends as a hit does not call it, and every get() returns the one
\* payload ever produced (so the second call returns what the first returned).
C2_MissThenHit ==
    faults = 0 =>
        /\ (pc[1] = "fetchData" => produced = {})
        /\ (Returned(1) => produced = {result[1].data})
        /\ (IsMiss(1) => fetchCalls[1] = 1 /\ result[1].data = freshData[1])
        /\ (IsHit(1) => fetchCalls[1] = 0)
        /\ (pc[1] = "threw" => fetchFailed[1] /\ produced = {})

\* C2 witness: a later get() against the populated store ended as a hit on a
\* payload of two chunks, without calling the producer.
C2_Witness ==
    /\ faults = 0 /\ getCount >= 2 /\ IsHit(1) /\ fetchCalls[1] = 0
    /\ Len(chunks[1]) = 2 /\ produced = {result[1].data}

\* C3: every value get() returns is a payload the producer returned.
C3_ReturnsProducedPayload ==
    \A g \in Slots : Returned(g) => result[g].data \in produced

\* C4: once the producer has returned a payload, get() does not fail.
C4_StoreBackFailureNotFatal ==
    \A g \in Slots : freshData[g] # NoData => pc[g] # "threw"

\* C5: a get() whose producer call failed has failed with the producer's
\* error; it has returned nothing and started no store write.
C5_ProducerFailurePropagates ==
    \A g \in Slots :
        fetchFailed[g] =>
            /\ pc[g] = "threw"
            /\ result[g] = [kind |-> "error", data |-> ProducerError]
            /\ fetchCalls[g] = 1
            /\ freshData[g] = NoData

\* C5 witness: the lookup found metadata and chunks that did not reassemble,
\* the producer was called and failed, and get() threw.
C5_Witness ==
    \E g \in Slots :
        /\ fetchFailed[g] /\ pc[g] = "threw" /\ metadata[g].present
        /\ result[g].data = ProducerError

\* The store holds every chunk of a payload the producer returned.
FragmentsIntact ==
    \E p \in produced :
        LET chunkList == splitIntoChunks(p, SAFE_CHUNK_SIZE_BYTES)
        IN  \A i \in DOMAIN chunkList :
                /\ ChunkCacheKey(i - 1) \in DOMAIN cache
                /\ cache[ChunkCacheKey(i - 1)] = chunkList[i]

\* C6: a get() whose metadata read finds the metadata entry absent from the
\* store, the chunk entries being intact, goes on to the producer.
C6_MetadataLossRefetches ==
    [][\A g \in Slots :
          (/\ pc[g] = "retrieveMetadata"
           /\ pc'[g] # "retrieveMetadata"
           /\ MetaCacheKey \notin DOMAIN cache
           /\ FragmentsIntact) => pc'[g] = "fetchData"]_vars

\* C7: a get() one of whose store reads errored does not fail because of it
\* and goes on to the producer: it never ends as a hit.
C7_ReadErrorIsAMiss ==
    \A g \in Slots :
        readError[g] =>
            /\ ~IsHit(g)
            /\ (pc[g] = "threw" => result[g].data # <<"error", "read">>)

\* C8: parsing the in-order join of the chunks of a payload yields the payload.
C8_RoundTrip ==
    spPc = "joined" => spParsed = [kind |-> "parsed", data |-> spData]

\* C8 witness: an array payload split into at least three chunks was parsed
\* back from them.
C8_Witness ==
    /\ spPc = "joined" /\ Len(spChunks) >= 3 /\ spData[1] = "arr"
    /\ spParsed.kind = "parsed"

\* C9: the split loop ends; every chunk it produced holds at most
\* maxChunkSizeBytes units and the chunks joined in order are the text,
\* which is true of the empty text (no chunk) as well.
SplitPost ==
    /\ \A i \in DOMAIN spChunks : Len(spChunks[i]) <= spMax
    /\ Join(spChunks) = jsonString
    /\ jsonString = JSONStringify(spData)
    /\ spChunks = splitIntoChunks(spData, spMax)

C9_SplitCorrect ==
    /\ [](spPc \in {"split", "joined"} => SplitPost)
    /\ [](\A b \in 1..MaxBound : SplitLoop(<<>>, b, 0, <<>>) = <<>>)
    /\ <>(spPc \in {"split", "joined"})

\* C9 witness: a text whose length is a multiple of the bound, greater than
\* the bound, has been split.
C9_Witness ==
    /\ spPc = "split" /\ spMax >= 2 /\ Len(spChunks) >= 2
    /\ Len(jsonString) = Len(spChunks) * spMax

\* C10: every chunk in the store takes at most SAFE_CHUNK_SIZE_BYTES bytes.
C10_ChunkByteBound ==
    \A k \in DOMAIN cache :
        k # MetaCacheKey => ByteLength(cache[k]) <= SAFE_CHUNK_SIZE_BYTES

\* C11 (write-time completeness): on the step of get() from the producer's
\* return into the store-back, the chunk count handed to the metadata write is
\* the number of chunks the splitter produced for the fresh payload, the value
\* handed to the write of chunk key i is the i-th chunk, and the writes issued
\* are the metadata key and the chunk keys with index 0..chunkCount-1 and no
\* other key.
C11_WriteTimeCompleteness ==
    [][\A g \in Slots :
        (pc[g] = "fetchData" /\ pc'[g] = "storeInCache") =>
            LET text == JSONStringify(freshData'[g])
                n    == (Len(text) + SAFE_CHUNK_SIZE_BYTES - 1) \div SAFE_CHUNK_SIZE_BYTES
            IN  /\ requestStore'[MetaCacheKey].chunkCount = n
                /\ pendingWrites'[g] =
                       {MetaCacheKey} \cup {ChunkCacheKey(i) : i \in 0..(n - 1)}
                /\ Join([i \in 1..n |-> requestStore'[ChunkCacheKey(i - 1)]]) = text]_vars

C11_Witness ==
    /\ pc[1] = "storeInCache"
    /\ requestStore[MetaCacheKey].chunkCount = 2
    /\ pendingWrites[1] = {MetaCacheKey, ChunkCacheKey(0), ChunkCacheKey(1)}
    /\ freshData[1] = Num(1234)

\* C12 (self-healing overwrite): when a get() whose reads all answered returns
\* from the miss path, so that every write of its store-back has succeeded, and
\* no entry of the fresh payload is absent from the store afterwards (nothing
\* was evicted since), the store
\* holds the metadata and the chunks of the fresh payload of that get().
C12_SelfHealingOverwrite ==
    [][\A g \in Slots :
        LET chunkList == splitIntoChunks(freshData[g], SAFE_CHUNK_SIZE_BYTES)
        IN  (/\ pc[g] = "storeInCache"
             /\ pc'[g] = "returned"
             /\ ~readError[g]
             /\ StoreKeys(chunkList) \subseteq DOMAIN cache') =>
                /\ cache'[MetaCacheKey] = MetadataRecord(chunkList)
                /\ \A i \in DOMAIN chunkList :
                       cache'[ChunkCacheKey(i - 1)] = chunkList[i]]_vars

\* C13 (no in-process cache): a read of get() sees an entry only when the
\* external store holds it: when the metadata entry is absent from the store
\* the metadata read of get() finds no metadata, and when a chunk entry is
\* absent from the store the read of that chunk yields null, also when this
\* process wrote the entry earlier.
C13_NoInProcessCache ==
    [][\A g \in Slots :
        /\ (/\ pc[g] = "retrieveMetadata"
            /\ pc'[g] # "retrieveMetadata"
            /\ MetaCacheKey \notin DOMAIN cache) => ~metadata'[g].present
        /\ \A i \in DOMAIN chunks[g] :
               (/\ pc[g] = "retrieveChunks"
                /\ chunks[g][i].state = "pending"
                /\ chunks'[g][i].state # "pending"
                /\ ChunkCacheKey(i - 1) \notin DOMAIN cache) =>
                   chunks'[g][i].state = "null"]_vars

\* The text retrieveFromCache hands to the decoder, written out by index: the
\* texts of the chunks that were read as values, from index 0 upwards.
RECURSIVE IndexOrderText(_, _)
IndexOrderText(cs, n) ==
    IF n = 0 THEN <<>>
    ELSE IndexOrderText(cs, n - 1)
             \o (IF cs[n].state = "value" THEN cs[n].text ELSE <<>>)

\* The cache lookup of get() g has ended in a miss: it found no metadata, or
\* every chunk read has completed and the chunks read do not decode.
LookupMissed(g) ==
    /\ pc[g] \notin {"idle", "retrieveMetadata", "retrieveChunks"}
    /\ \/ ~metadata[g].present
       \/ /\ \A i \in DOMAIN chunks[g] : chunks[g][i].state # "pending"
          /\ ~JSONParse(IndexOrderText(chunks[g], Len(chunks[g]))).ok

\* C14 (producer at most once, only after a miss): in every get() the producer
\* has been called at most once; it has been called only if the lookup of that
\* get() ended in a miss; a get() that returned a hit has not called it.
C14_ProducerOnlyAfterMiss ==
    \A g \in Slots :
        /\ fetchCalls[g] \in {0, 1}
        /\ (fetchCalls[g] = 1 => LookupMissed(g))
        /\ (IsHit(g) => fetchCalls[g] = 0)

C14_Witness ==
    \E g \in Slots :
        /\ IsMiss(g)
        /\ fetchCalls[g] = 1
        /\ metadata[g].present
        /\ Len(chunks[g]) = 2
        /\ ~readError[g]

\* C15 (no single-flight): nothing shares a producer call or a store-back
\* between get() invocations that run concurrently: every get() that is in its
\* store-back or has returned from the miss path has called the producer
\* itself, exactly once, holds a payload of its own producer call, and has
\* issued its own writes, all of which have completed when it returns.  The
\* witness is the execution the claim describes: two get() invocations against
\* an empty store both miss, the producer is called twice and both write back.
C15_NoSingleFlight ==
    \A g \in Slots :
        /\ (pc[g] = "storeInCache" \/ IsMiss(g)) =>
               /\ fetchCalls[g] = 1
               /\ freshData[g] \in produced
        /\ pc[g] = "storeInCache" =>
               /\ pendingWrites[g] # {}
               /\ pendingWrites[g] \subseteq
                      StoreKeys(splitIntoChunks(freshData[g], SAFE_CHUNK_SIZE_BYTES))
        /\ IsMiss(g) =>
               /\ pendingWrites[g] = {}
               /\ StoreKeys(splitIntoChunks(freshData[g], SAFE_CHUNK_SIZE_BYTES))
                      \subseteq DOMAIN cache

C15_Witness ==
    /\ getCount = 2
    /\ IsMiss(1) /\ IsMiss(2)
    /\ ~metadata[1].present /\ ~metadata[2].present
    /\ fetchCalls[1] + fetchCalls[2] = 2
    /\ freshData[1] # freshData[2]
    /\ produced = {freshData[1], freshData[2]}
    /\ pendingWrites[1] = {} /\ pendingWrites[2] = {}

\* C16 (index-order recombination): once the chunk reads of a get() are in,
\* whatever order they completed in, the outcome is that of decoding the texts
\* of the chunks read, concatenated by ascending index: a hit returns the value
\* that text decodes to, and the get() goes on to the producer only when that
\* text does not decode.
C16_IndexOrderRecombination ==
    \A g \in Slots :
        (metadata[g].present /\ pc[g] \notin {"idle", "retrieveMetadata", "retrieveChunks"}) =>
            LET r == JSONParse(IndexOrderText(chunks[g], Len(chunks[g])))
            IN  IF IsHit(g) THEN r.ok /\ result[g].data = r.val
                ELSE ~r.ok

\* A hit whose chunk 1 arrived before its chunk 0.
C16_Witness ==
    \E g \in Slots :
        /\ IsHit(g)
        /\ arrival[g] = <<1, 0>>
        /\ chunks[g][1].text = <<"1", "2", "3">>
        /\ chunks[g][2].text = <<"4">>
        /\ result[g].data = Num(1234)

\* C17 (join waits for all): a get() that has returned or failed has no store
\* write still in progress, and a get() is past the read fan-out only when
\* every chunk read it started has completed.
C17_JoinWaitsForAll ==
    \A g \in Slots :
        /\ pc[g] \in {"returned", "threw"} => pendingWrites[g] = {}
        /\ pc[g] \notin {"idle", "retrieveMetadata", "retrieveChunks"} =>
               \A i \in DOMAIN chunks[g] : chunks[g][i].state # "pending"

\* C18 (missing chunks are detected by parsing): for every payload and chunk
\* size, when at least one chunk of the payload is missing, the join of the
\* chunks that remain, in index order, does not parse.
C18_MissingChunkFailsParse ==
    spPc = "joinedRemaining" => spParsed.kind = "error"

\* The chunk indexes whose reads get() g has completed.
ArrivedIndexes(g) == {arrival[g][j] : j \in DOMAIN arrival[g]}

\* C19 (read ordering): while the metadata read of a get() is in progress, and
\* when it found no metadata, the get() has started and completed no chunk
\* read; when it found metadata with chunkCount n, the chunk reads started are
\* those of index 0..n-1, each read completes once, the reads completed are
\* among 0..n-1, and they are all of 0..n-1 once the get() is past the reads.
C19_ReadOrdering ==
    \A g \in Slots :
        /\ (pc[g] = "retrieveMetadata" \/ ~metadata[g].present) =>
               chunks[g] = <<>> /\ arrival[g] = <<>>
        /\ metadata[g].present =>
               /\ DOMAIN chunks[g] = 1..metadata[g].chunkCount
               /\ Cardinality(ArrivedIndexes(g)) = Len(arrival[g])
               /\ ArrivedIndexes(g) =
                      {i - 1 : i \in {j \in DOMAIN chunks[g] : chunks[g][j].state # "pending"}}
               /\ (pc[g] # "retrieveChunks" =>
                      ArrivedIndexes(g) = 0..(metadata[g].chunkCount - 1))

\* A hit read through metadata that counts one chunk while the store still
\* holds chunk 1 of an earlier, longer payload: chunk 1 is not read.
C19_Witness ==
    \E g \in Slots :
        /\ IsHit(g)
        /\ metadata[g].chunkCount = 1
        /\ ChunkCacheKey(1) \in DOMAIN cache
        /\ arrival[g] = <<0>>

\* C20 (the temporary store is request-scoped): whenever no get() is in
\* progress, requestStore holds no entry.
C20_RequestStoreRequestScoped ==
    (\A g \in Slots : ~InProgress(g)) => DOMAIN requestStore = {}

\* C21 (the read path never writes): the step on which the metadata read or a
\* chunk read of a get() completes leaves the external store as it was; a read
\* of a key the store does not hold creates no entry for it.
C21_ReadPathNeverWrites ==
    [][\A g \in Slots :
        (\/ pc[g] = "retrieveMetadata" /\ pc'[g] # "retrieveMetadata"
         \/ pc[g] = "retrieveChunks" /\ arrival'[g] # arrival[g]) =>
            cache' = cache]_vars

\* C22 (nothing is written before the producer returns): a get() that has not
\* yet got a payload from the producer, and a get() whose producer call failed,
\* has issued no store write, and its lookup has put no entry into the
\* external store.
C22_NoWriteBeforeProducer ==
    \A g \in Slots :
        (pc[g] \in {"retrieveMetadata", "retrieveChunks", "fetchData"} \/ fetchFailed[g]) =>
            /\ pendingWrites[g] = {}
            /\ ~lookupWrote[g]

\* C23 (termination): when every store read, store write and producer call
\* that a get() has issued completes eventually, every get() that has started
\* (the invocations run one after the other, in slot 1) eventually returns a
\* payload or fails; and no step takes a get() from its chunk reads, its
\* producer call or its store-back back to an earlier stage.
C23_GetTerminates ==
    /\ (pc[1] \in {"retrieveMetadata", "retrieveChunks", "fetchData", "storeInCache"})
           ~> (pc[1] \in {"returned", "threw"})
    /\ [][\A g \in Slots :
            /\ pc[g] = "retrieveChunks" => pc'[g] # "retrieveMetadata"
            /\ pc[g] = "fetchData" => pc'[g] \in {"fetchData", "storeInCache", "threw"}
            /\ pc[g] = "storeInCache" => pc'[g] \in {"storeInCache", "returned", "threw"}]_vars

\* A get() that ran both fan-outs and failed: two chunk reads, a miss, the
\* producer, a store write that failed and the other writes completed.
C23_Witness ==
    \E g \in Slots :
        /\ pc[g] = "threw"
        /\ result[g].data = StoreError
        /\ Len(arrival[g]) = 2
        /\ fetchCalls[g] = 1
        /\ pendingWrites[g] = {}

\* C24 (key isolation): the store keys built for two different combinations of
\* prefix, role and chunk index (with the same revalidateSeconds) are
\* different keys.
C24_KeyIsolation ==
    \A r1 \in keysUsed, r2 \in keysUsed : r1.key = r2.key => r1 = r2

=============================================================================
